---- MODULE Spec2Model ----
(***************************************************************************)
(* A model of src/utils.py of cooklang-import: eprint, sub_lists,          *)
(* highlight_replacement_in_text and write_to_file.                        *)
(*                                                                         *)
(* A Python str is a sequence of one-character strings.  Each function is  *)
(* a small state machine whose program counter names the source line that  *)
(* runs next, and each function has a specification of its own:            *)
(*   SpecHighlight  highlight_replacement_in_text (and eprint)             *)
(*   SpecSubLists   sub_lists                                              *)
(*   SpecWrite      write_to_file, called up to MaxCalls times             *)
(***************************************************************************)
EXTENDS Integers, Sequences, FiniteSets, TLC

VARIABLES
    \* highlight_replacement_in_text
    hl_text,        \* the parameter instructions
    match_start,    \* the parameter match_start
    match_end,      \* the parameter match_end
    start,          \* the local start
    end,            \* the local end
    hl_pc,          \* the line that runs next, "done" or "raised"
    hl_exc,         \* the exception that left the call, or "none"
    stderr,         \* the lines printed to sys.stderr, without their newline
    \* sub_lists
    l,              \* the parameter l
    lists,          \* the local lists
    i,              \* the outer loop variable
    j,              \* the inner loop variable
    sub_pc,         \* the line that runs next, or "done"
    sub_result,     \* the returned value
    \* write_to_file
    argv,           \* sys.argv, fixed for the life of the process
    fs,             \* the directory: file name stem -> content, or NoFile
    w_args,         \* the parameters of the call in progress
    w_pc,           \* the line that runs next, "idle", "exit" or "done"
    w_exc,          \* the exception raised in the call, or "none"
    outfile,        \* the file object: [state, pending]
    w_log,          \* history: what the call in progress has done so far
    calls,          \* history: the number of calls started
    hist            \* history: one record per call that returned normally

hl_vars  == <<hl_text, match_start, match_end, start, end, hl_pc, hl_exc, stderr>>
sub_vars == <<l, lists, i, j, sub_pc, sub_result>>
w_vars   == <<argv, fs, w_args, w_pc, w_exc, outfile, w_log, calls, hist>>
vars     == <<hl_vars, sub_vars, w_vars>>

----------------------------------------------------------------------------
(* Bounds of the model *)

\* the longest text handed to the highlighter
MaxLen == 38
\* how far outside [0, len] a span offset may lie
Margin == 2
\* the longest list handed to sub_lists
MaxListLen == 4
\* the number of write_to_file calls in one run
MaxCalls == 2

----------------------------------------------------------------------------
(* Python values *)

Max(a, b) == IF a >= b THEN a ELSE b
Min(a, b) == IF a <= b THEN a ELSE b

\* s[a:b] for a sequence s and integers a, b: a negative index counts from
\* the end, both are clamped into [0, len], and an empty range gives "".
PySliceIndex(n, k) == IF k < 0 THEN Max(n + k, 0) ELSE Min(k, n)

PySlice(s, a, b) ==
    LET lo == PySliceIndex(Len(s), a)
        hi == PySliceIndex(Len(s), b)
    IN  IF lo < hi THEN SubSeq(s, lo + 1, hi) ELSE <<>>

\* c * n for a one-character string c: "" when n <= 0.
PyRepeat(c, n) == [k \in 1..Max(n, 0) |-> c]

RECURSIVE JoinWith(_, _)
JoinWith(sep, args) ==
    IF Len(args) = 0 THEN <<>>
    ELSE IF Len(args) = 1 THEN args[1]
    ELSE args[1] \o sep \o JoinWith(sep, Tail(args))

\* print(*args, file=sys.stderr): the arguments joined by sep=" "; the
\* end="\n" closes the line and is not kept in the line.
eprint(args) == JoinWith(<<" ">>, args)

----------------------------------------------------------------------------
(* highlight_replacement_in_text *)

Alphabet ==
    << "0", "1", "2", "3", "4", "5", "6", "7", "8", "9",
       "a", "b", "c", "d", "e", "f", "g", "h", "i", "j", "k", "l", "m",
       "n", "o", "p", "q", "r", "s", "t", "u", "v", "w", "x", "y", "z" >>

\* the text of length n: the digits and letters, repeated
Text(n) == [k \in 1..n |-> Alphabet[((k - 1) % Len(Alphabet)) + 1]]

Offsets == (0 - Margin)..(MaxLen + Margin)

Context == 18

Marker == <<".", ".", ".">>

WindowStart(ms) == ms - Context
WindowEnd(me) == me + Context

ClampStart(s) == IF s < 0 THEN 0 ELSE s

PadCountBug(ms, s) == 2 + ms - s
PadCount(ms, s) == 3 + ms - s

CaretCount(ms, me) == me - ms

InitHighlight ==
    /\ \E n \in 0..MaxLen : hl_text = Text(n)
    /\ match_start \in Offsets
    /\ match_end \in Offsets
    /\ start = 0
    /\ end = 0
    /\ hl_pc = "L23"
    /\ hl_exc = "none"
    /\ stderr = <<>>

HLWindow ==
    /\ hl_pc = "L23"
    /\ start' = WindowStart(match_start)
    /\ end' = WindowEnd(match_end)
    /\ hl_pc' = "L26"
    /\ UNCHANGED <<hl_text, match_start, match_end, hl_exc, stderr, sub_vars, w_vars>>

HLClampStart ==
    /\ hl_pc = "L26"
    /\ start' = ClampStart(start)
    /\ hl_pc' = "L29"
    /\ UNCHANGED <<hl_text, match_start, match_end, end, hl_exc, stderr, sub_vars, w_vars>>

\* line 30 calls lent, a name bound nowhere: reaching it raises NameError
HLClampEndRaise ==
    /\ hl_pc = "L29"
    /\ end > Len(hl_text)
    /\ hl_exc' = "NameError"
    /\ hl_pc' = "raised"
    /\ UNCHANGED <<hl_text, match_start, match_end, start, end, stderr, sub_vars, w_vars>>

HLClampEndSkip ==
    /\ hl_pc = "L29"
    /\ ~(end > Len(hl_text))
    /\ hl_pc' = "L32"
    /\ UNCHANGED <<hl_text, match_start, match_end, start, end, hl_exc, stderr, sub_vars, w_vars>>

HLPrintContext ==
    /\ hl_pc = "L32"
    /\ stderr' = Append(stderr, eprint(<<Marker, PySlice(hl_text, start, end), Marker>>))
    /\ hl_pc' = "L33"
    /\ UNCHANGED <<hl_text, match_start, match_end, start, end, hl_exc, sub_vars, w_vars>>

HLPrintCarets ==
    /\ hl_pc = "L33"
    /\ stderr' = Append(stderr,
                        eprint(<<PyRepeat(" ", PadCount(match_start, start)),
                                 PyRepeat("^", CaretCount(match_start, match_end))>>))
    /\ hl_pc' = "done"
    /\ UNCHANGED <<hl_text, match_start, match_end, start, end, hl_exc, sub_vars, w_vars>>

HLIdle ==
    /\ hl_text = <<>>
    /\ match_start = 0
    /\ match_end = 0
    /\ start = 0
    /\ end = 0
    /\ hl_pc = "idle"
    /\ hl_exc = "none"
    /\ stderr = <<>>

----------------------------------------------------------------------------
(* sub_lists *)

Elems == {"a", "b", "c"}

ListsUpTo(n) == UNION {[1..k -> Elems] : k \in 0..n}

\* range(len(l) + 1) and range(i)
OuterRange(n) == 0..n
InnerRangeBug(k) == 0..k
InnerRange(k) == 0..(k - 1)

InitSubLists ==
    /\ l \in ListsUpTo(MaxListLen)
    /\ lists = <<>>
    /\ i = -1
    /\ j = -1
    /\ sub_pc = "L16"
    /\ sub_result = <<>>

SubIdle ==
    /\ l = <<>>
    /\ lists = <<>>
    /\ i = -1
    /\ j = -1
    /\ sub_pc = "idle"
    /\ sub_result = <<>>

\* lists = [[]]
SubStart ==
    /\ sub_pc = "L16"
    /\ lists' = << <<>> >>
    /\ sub_pc' = "L17"
    /\ UNCHANGED <<l, i, j, sub_result, hl_vars, w_vars>>

\* for i in range(len(l) + 1): the next value, with a fresh inner iterator
SubOuterNext ==
    /\ sub_pc = "L17"
    /\ (i + 1) \in OuterRange(Len(l))
    /\ i' = i + 1
    /\ j' = -1
    /\ sub_pc' = "L18"
    /\ UNCHANGED <<l, lists, sub_result, hl_vars, w_vars>>

SubOuterEnd ==
    /\ sub_pc = "L17"
    /\ (i + 1) \notin OuterRange(Len(l))
    /\ sub_pc' = "L20"
    /\ UNCHANGED <<l, lists, i, j, sub_result, hl_vars, w_vars>>

\* for j in range(i)
SubInnerNext ==
    /\ sub_pc = "L18"
    /\ (j + 1) \in InnerRange(i)
    /\ j' = j + 1
    /\ sub_pc' = "L19"
    /\ UNCHANGED <<l, lists, i, sub_result, hl_vars, w_vars>>

SubInnerEnd ==
    /\ sub_pc = "L18"
    /\ (j + 1) \notin InnerRange(i)
    /\ sub_pc' = "L17"
    /\ UNCHANGED <<l, lists, i, j, sub_result, hl_vars, w_vars>>

\* lists.append(l[j:i])
SubAppend ==
    /\ sub_pc = "L19"
    /\ lists' = Append(lists, PySlice(l, j, i))
    /\ sub_pc' = "L18"
    /\ UNCHANGED <<l, i, j, sub_result, hl_vars, w_vars>>

SubReturn ==
    /\ sub_pc = "L20"
    /\ sub_result' = lists
    /\ sub_pc' = "done"
    /\ UNCHANGED <<l, lists, i, j, hl_vars, w_vars>>

----------------------------------------------------------------------------
(* write_to_file *)

\* the most characters of the pending text that reach the disk when the
\* flush at close fails
MaxKept == 3

IntVal(n) == [kind |-> "int", n |-> n, s |-> <<>>]
StrVal(s) == [kind |-> "str", n |-> 0, s |-> s]

Digit(d) == <<"0", "1", "2", "3", "4", "5", "6", "7", "8", "9">>[d + 1]

\* str(n) for an int n >= 0
RECURSIVE IntStr(_)
IntStr(n) == IF n < 10 THEN <<Digit(n)>> ELSE Append(IntStr(n \div 10), Digit(n % 10))

\* the text an f-string field {v} gives: str(v)
PyFormat(v) == IF v.kind = "int" THEN IntStr(v.n) ELSE v.s

Titles == {<<"P", "a", "s", "t", "a">>}
Links == {<<"k">>, <<"w">>}
TotalTimes == {IntVal(30), StrVal(<<"5">>)}
Images == {<<"i", ".", "j", "p", "g">>}
Instructions == {<<"a", "b", "c">>, <<"x", "\n">>}

\* sys.argv: the program name alone, or the program name and a source
Argvs == {<< <<"m">> >>, << <<"m">>, <<"k">> >>, << <<"m">>, <<"v">> >>}

Args == [title : Titles, link : Links, total_time : TotalTimes,
         image : Images, instructions : Instructions]

NoArgs == [title |-> <<>>, link |-> <<>>, total_time |-> IntVal(0),
           image |-> <<>>, instructions |-> <<>>]

\* f"{title}.cook"
FileName(title) == title \o <<".", "c", "o", "o", "k">>
FileNames == {FileName(t) : t \in Titles}

NoFile == [exists |-> FALSE, data |-> <<>>]
File(data) == [exists |-> TRUE, data |-> data]

\* what a file left by an earlier run may hold
OldData == <<"o", "l", "d", " ", "r", "e", "c", "i", "p", "e", "\n">>

\* open(name, "w"): the file is created, or cut to length 0
OpenAppendBug(f) == IF f.exists THEN f ELSE File(<<>>)
OpenWrite(f) == File(<<>>)

SourcePrefix == <<">", ">", " ", "s", "o", "u", "r", "c", "e", ":", " ">>
TimePrefix == <<">", ">", " ", "t", "i", "m", "e", " ",
                "r", "e", "q", "u", "i", "r", "e", "d", ":", " ">>
MinutesSuffix == <<" ", "m", "i", "n", "u", "t", "e", "s">>
ImagePrefix == <<">", ">", " ", "i", "m", "a", "g", "e", ":", " ">>
NL == <<"\n">>

\* sys.argv[1] is there
HasArg1(av) == Len(av) > 1

\* the text each of lines 46..49 hands to outfile.write
SourceLineLinkBug(av, a) == SourcePrefix \o a.link \o NL
SourceLine(av, a) == SourcePrefix \o av[2] \o NL
TimeLineNoUnitBug(a) == TimePrefix \o PyFormat(a.total_time) \o NL
TimeLine(a) == TimePrefix \o PyFormat(a.total_time) \o MinutesSuffix \o NL
ImageLineNoBlankBug(a) == ImagePrefix \o a.image \o NL
ImageLine(a) == ImagePrefix \o a.image \o NL \o NL
Body(a) == a.instructions

Piece(pc, av, a) ==
    CASE pc = "L46" -> SourceLine(av, a)
      [] pc = "L47" -> TimeLine(a)
      [] pc = "L48" -> ImageLine(a)
      [] pc = "L49" -> Body(a)

NextLine(pc) ==
    CASE pc = "L46" -> "L47"
      [] pc = "L47" -> "L48"
      [] pc = "L48" -> "L49"
      [] pc = "L49" -> "exit"

WriteLines == {"L46", "L47", "L48", "L49"}

\* the with statement's exit: the file is closed whatever happened in the
\* body, and __exit__ returns None, so an exception of the body goes on to
\* the caller
ExitStateNoWithBug(exc) == IF exc = "none" THEN "closed" ELSE "open"
ExitState(exc) == "closed"
ExitRaises(exc) == exc

NoLog == [before |-> NoFile, opened |-> FALSE, writes |-> 0, failed |-> "none"]

InitWrite ==
    /\ argv \in Argvs
    /\ fs \in [FileNames -> {NoFile, File(OldData)}]
    /\ w_args = NoArgs
    /\ w_pc = "idle"
    /\ w_exc = "none"
    /\ outfile = [state |-> "none", pending |-> <<>>]
    /\ w_log = NoLog
    /\ calls = 0
    /\ hist = {}

WIdle ==
    /\ argv = << <<"m">> >>
    /\ fs = [f \in FileNames |-> NoFile]
    /\ w_args = NoArgs
    /\ w_pc = "off"
    /\ w_exc = "none"
    /\ outfile = [state |-> "none", pending |-> <<>>]
    /\ w_log = NoLog
    /\ calls = 0
    /\ hist = {}

\* the caller calls write_to_file(title, link, total_time, image, instructions)
WCall ==
    /\ w_pc \in {"idle", "done"}
    /\ calls < MaxCalls
    /\ \E a \in Args :
        /\ w_args' = a
        /\ w_log' = [NoLog EXCEPT !.before = fs[FileName(a.title)]]
    /\ w_pc' = "L45"
    /\ w_exc' = "none"
    /\ outfile' = [state |-> "none", pending |-> <<>>]
    /\ calls' = calls + 1
    /\ UNCHANGED <<argv, fs, hist, hl_vars, sub_vars>>

\* line 45, open succeeds
WOpen ==
    /\ w_pc = "L45"
    /\ fs' = [fs EXCEPT ![FileName(w_args.title)] = OpenWrite(@)]
    /\ outfile' = [state |-> "open", pending |-> <<>>]
    /\ w_log' = [w_log EXCEPT !.opened = TRUE]
    /\ w_pc' = "L46"
    /\ UNCHANGED <<argv, w_args, w_exc, calls, hist, hl_vars, sub_vars>>

\* line 45, open raises OSError: the with block is never entered
WOpenFails ==
    /\ w_pc = "L45"
    /\ w_exc' = "OSError"
    /\ w_log' = [w_log EXCEPT !.failed = "L45"]
    /\ w_pc' = "done"
    /\ UNCHANGED <<argv, fs, w_args, outfile, calls, hist, hl_vars, sub_vars>>

\* line 46, sys.argv[1] with no first argument: IndexError, before any write
WNoArgument ==
    /\ w_pc = "L46"
    /\ ~HasArg1(argv)
    /\ w_exc' = "IndexError"
    /\ w_log' = [w_log EXCEPT !.failed = "L46"]
    /\ w_pc' = "exit"
    /\ UNCHANGED <<argv, fs, w_args, outfile, calls, hist, hl_vars, sub_vars>>

\* lines 46..49, outfile.write(text) takes the text
WWrite ==
    /\ w_pc \in WriteLines
    /\ w_pc = "L46" => HasArg1(argv)
    /\ outfile' = [outfile EXCEPT !.pending = @ \o Piece(w_pc, argv, w_args)]
    /\ w_log' = [w_log EXCEPT !.writes = @ + 1]
    /\ w_pc' = NextLine(w_pc)
    /\ UNCHANGED <<argv, fs, w_args, w_exc, calls, hist, hl_vars, sub_vars>>

\* lines 46..49, outfile.write(text) raises OSError and the text is lost
WWriteFails ==
    /\ w_pc \in WriteLines
    /\ w_pc = "L46" => HasArg1(argv)
    /\ w_exc' = "OSError"
    /\ w_log' = [w_log EXCEPT !.writes = @ + 1, !.failed = w_pc]
    /\ w_pc' = "exit"
    /\ UNCHANGED <<argv, fs, w_args, outfile, calls, hist, hl_vars, sub_vars>>

\* the end of the with block: close() flushes the pending text and releases
\* the handle
WExit ==
    /\ w_pc = "exit"
    /\ fs' = [fs EXCEPT ![FileName(w_args.title)] = File(@.data \o outfile.pending)]
    /\ outfile' = [state |-> ExitState(w_exc), pending |-> <<>>]
    /\ w_exc' = ExitRaises(w_exc)
    /\ hist' = IF w_exc = "none"
               THEN hist \cup {[args |-> w_args, before |-> w_log.before,
                                data |-> fs'[FileName(w_args.title)].data]}
               ELSE hist
    /\ w_pc' = "done"
    /\ UNCHANGED <<argv, w_args, w_log, calls, hl_vars, sub_vars>>

\* the end of the with block, and the flush in close() raises OSError after
\* part of the pending text reached the disk; the handle is released all
\* the same
WExitFlushFails ==
    /\ w_pc = "exit"
    /\ \E k \in 0..Min(Len(outfile.pending) - 1, MaxKept) :
        fs' = [fs EXCEPT ![FileName(w_args.title)] =
                            File(@.data \o SubSeq(outfile.pending, 1, k))]
    /\ outfile' = [state |-> ExitState("OSError"), pending |-> <<>>]
    /\ w_exc' = ExitRaises("OSError")
    /\ w_log' = [w_log EXCEPT !.failed = IF @ = "none" THEN "close" ELSE @]
    /\ w_pc' = "done"
    /\ UNCHANGED <<argv, w_args, calls, hist, hl_vars, sub_vars>>

----------------------------------------------------------------------------
(* The specifications *)

InitHL == InitHighlight /\ SubIdle /\ WIdle

NextHighlight ==
    \/ HLWindow
    \/ HLClampStart
    \/ HLClampEndRaise
    \/ HLClampEndSkip
    \/ HLPrintContext
    \/ HLPrintCarets

SpecHighlight == InitHL /\ [][NextHighlight]_vars

InitSub == HLIdle /\ InitSubLists /\ WIdle

NextSubLists ==
    \/ SubStart
    \/ SubOuterNext
    \/ SubOuterEnd
    \/ SubInnerNext
    \/ SubInnerEnd
    \/ SubAppend
    \/ SubReturn

SpecSubLists == InitSub /\ [][NextSubLists]_vars

InitW == HLIdle /\ SubIdle /\ InitWrite

NextWrite ==
    \/ WCall
    \/ WOpen
    \/ WOpenFails
    \/ WNoArgument
    \/ WWrite
    \/ WWriteFails
    \/ WExit
    \/ WExitFlushFails

SpecWrite == InitW /\ [][NextWrite]_vars

----------------------------------------------------------------------------
(* Properties of highlight_replacement_in_text, under SpecHighlight *)

\* a well-formed span: 0 <= match_start <= match_end <= len(instructions)
WellFormed ==
    /\ 0 <= match_start
    /\ match_start <= match_end
    /\ match_end <= Len(hl_text)

\* the call is over: it returned, or an exception left it
HLEnded == hl_pc \in {"done", "raised"}

\* the window of the claims: lo = max(0, match_start - 18) and
\* hi = min(len(instructions), match_end + 18)
Lo == Max(0, match_start - 18)
Hi == Min(Len(hl_text), match_end + 18)

\* C1: for every well-formed span the call raises nothing and prints its two
\* lines, also when match_start - 18 < 0 or match_end + 18 > len(instructions).
C1_NeverRaises ==
    (HLEnded /\ WellFormed) => (hl_exc = "none" /\ Len(stderr) = 2)

\* C7: for every malformed span (reversed, negative, or beyond the text) the
\* call raises nothing and prints its two lines.
C7_MalformedTolerated ==
    (HLEnded /\ ~WellFormed) => (hl_pc = "done" /\ hl_exc = "none" /\ Len(stderr) = 2)

\* C4: for every text and span the call prints as line 1 the marker "..."
\* followed by instructions[lo:hi] followed by "...", with 0 <= lo and
\* hi <= len(instructions).
C4_ContextLine ==
    HLEnded =>
        /\ Len(stderr) >= 1
        /\ stderr[1] = <<".", ".", ".">> \o SubSeq(hl_text, Lo + 1, Hi) \o <<".", ".", ".">>
        /\ 0 <= Lo
        /\ Hi <= Len(hl_text)

\* n times the character c
Run(c, n) == [k \in 1..n |-> c]

----------------------------------------------------------------------------
(* Properties of sub_lists, under SpecSubLists *)

\* C6: sub_lists(l) is the empty list followed by l[j:i] for i = 1..n in
\* increasing order and, within each i, j = 0..i-1 in increasing order:
\* 1 + n(n+1)/2 elements, the first one empty, every other one a non-empty
\* contiguous slice.
C6_SubLists ==
    sub_pc = "done" =>
        LET n == Len(l)
        IN  /\ Len(sub_result) = 1 + (n * (n + 1)) \div 2
            /\ sub_result[1] = <<>>
            /\ \A ii \in 1..n : \A jj \in 0..(ii - 1) :
                LET at == 1 + ((ii - 1) * ii) \div 2 + jj + 1
                IN  /\ sub_result[at] = [k \in 1..(ii - jj) |-> l[jj + k]]
                    /\ sub_result[at] # <<>>

C6_Witness ==
    /\ sub_pc = "done"
    /\ l = <<"a", "b", "c">>
    /\ sub_result = << <<>>, <<"a">>, <<"a", "b">>, <<"b">>,
                       <<"a", "b", "c">>, <<"b", "c">>, <<"c">> >>

----------------------------------------------------------------------------
(* Properties of write_to_file, under SpecWrite *)

\* the call in progress has returned normally
WReturned == w_pc = "done" /\ w_exc = "none"

\* the call in progress has ended with an exception
WFailed == w_pc = "done" /\ w_exc # "none"

\* the file the call in progress names
Target == fs[FileName(w_args.title)]

\* how a total_time of the model reads in the file
ShownTime(v) ==
    CASE v = IntVal(30) -> <<"3", "0">>
      [] v = StrVal(<<"5">>) -> <<"5">>

\* the file content of the claims: three header lines, a blank line, the
\* instructions, for the first process argument src
Expected(src, a) ==
    <<">", ">", " ", "s", "o", "u", "r", "c", "e", ":", " ">> \o src \o <<"\n">>
    \o <<">", ">", " ", "t", "i", "m", "e", " ", "r", "e", "q", "u", "i", "r", "e", "d", ":", " ">>
    \o ShownTime(a.total_time) \o <<" ", "m", "i", "n", "u", "t", "e", "s", "\n">>
    \o <<">", ">", " ", "i", "m", "a", "g", "e", ":", " ">> \o a.image \o <<"\n">>
    \o <<"\n">>
    \o a.instructions

IsPrefix(p, s) == Len(p) <= Len(s) /\ p = SubSeq(s, 1, Len(p))

\* sub occurs in s
Occurs(sub, s) ==
    \E k \in 0..(Len(s) - Len(sub)) : SubSeq(s, k + 1, k + Len(sub)) = sub

\* C2 as stated: after any call, normal or failed, the file holds the
\* complete content or the call did not create it.
C2_AllOrNothingAsStated ==
    w_pc = "done" =>
        \/ HasArg1(argv) /\ Target = File(Expected(argv[2], w_args))
        \/ ~w_log.opened /\ Target = w_log.before

\* C2 as amended: after a call that returns normally the file holds the
\* complete content; after a call whose open failed the file is as it was
\* before; after a call that failed later the file exists and holds a prefix
\* of the complete content, empty when the process has no first argument.
C2_PrefixOnFailure ==
    w_pc = "done" =>
        /\ w_exc = "none" => HasArg1(argv) /\ Target = File(Expected(argv[2], w_args))
        /\ (w_exc # "none" /\ ~w_log.opened) => Target = w_log.before
        /\ (w_exc # "none" /\ w_log.opened) =>
            /\ Target.exists
            /\ IF HasArg1(argv)
               THEN IsPrefix(Target.data, Expected(argv[2], w_args))
               ELSE Target.data = <<>>

\* a failed call that left the header lines without the instructions
C2_Witness ==
    /\ WFailed
    /\ w_log.failed = "L49"
    /\ w_log.before = File(OldData)
    /\ Target.exists
    /\ Len(Target.data) > 0
    /\ Len(Target.data) < Len(Expected(argv[2], w_args))

\* C3: after a call that returns normally the file holds the source line
\* with the first process argument, the time line with " minutes", the image
\* line, one blank line and the instructions, and nothing after them.
C3_Content ==
    WReturned => Target = File(Expected(argv[2], w_args))

C3_Witness ==
    /\ WReturned
    /\ w_args.total_time = IntVal(30)
    /\ w_args.instructions = <<"a", "b", "c">>
    /\ Len(Target.data) = Len(Expected(argv[2], w_args))
    /\ Target.data[Len(Target.data)] = "c"

\* C8: every call that returned normally on a file that was already there
\* left exactly what the call alone produces: nothing of the earlier content
\* is kept, and calls with the same arguments leave the same content.
C8_Overwrite ==
    \A h \in hist :
        /\ h.before.exists => h.data = Expected(argv[2], h.args)
        /\ \A g \in hist : g.args = h.args => g.data = h.data

\* two calls on the same title, the second with a shorter content
C8_Witness ==
    \E g, h \in hist :
        /\ h.before = File(g.data)
        /\ g.args.title = h.args.title
        /\ Len(h.data) < Len(g.data)
        /\ Target.data = h.data

\* C9: two calls that agree on everything but link leave the same bytes, and
\* a link that is not the first process argument occurs nowhere in the file.
C9_LinkUnused ==
    \A h \in hist :
        /\ \A g \in hist :
            [g.args EXCEPT !.link = h.args.link] = h.args => g.data = h.data
        /\ h.args.link # argv[2] => ~Occurs(h.args.link, h.data)

C9_Witness ==
    \E g, h \in hist :
        /\ g.args.link # h.args.link
        /\ [g.args EXCEPT !.link = h.args.link] = h.args
        /\ h.args.link # argv[2]
        /\ g.args.link = argv[2]

\* C10: when a call ends its handle is released, closed if it was opened; a
\* failure at any step reaches the caller as an exception; when open fails
\* no write is attempted.  While the call runs lines 46..49 the handle is
\* open.
C10_Released ==
    /\ w_pc = "done" => outfile.state # "open"
    /\ (w_pc = "done" /\ w_log.opened) => outfile.state = "closed"
    /\ (w_pc = "done" /\ w_log.failed # "none") => w_exc # "none"
    /\ w_log.failed = "L45" =>
        /\ w_pc = "done"
        /\ w_exc = "OSError"
        /\ w_log.writes = 0
        /\ outfile.state = "none"
    /\ w_pc \in WriteLines \cup {"exit"} => outfile.state = "open"

\* a call whose third write failed has ended, closed, with the error
C10_Witness ==
    /\ w_pc = "done"
    /\ w_log.failed = "L48"
    /\ w_log.writes = 3
    /\ outfile.state = "closed"
    /\ w_exc = "OSError"

====
